---- MODULE Spec2Model ----
(***************************************************************************)
(* A state-machine model of the Google Maps scraper:                       *)
(*   src/scraper.py  (scrape_gmaps, BusinessList.add, run_pipeline,        *)
(*                    smart_email_scrape)                                  *)
(*   src/main.py     (main: scroll loop, listing loop,                     *)
(*                    BusinessList.add_business)                           *)
(* The two programs are the two "variants" of the same pipeline; the       *)
(* variable `variant` says which one a behaviour follows.                  *)
(***************************************************************************)
EXTENDS Integers, Sequences, FiniteSets, TLC

(***************************************************************************)
(* Bounds of the model.                                                    *)
(***************************************************************************)
\* number of add calls in a behaviour of the Deduplicator specification
MaxSubmit == 3
\* number of distinct values hash() can return (2^64 in CPython)
HashRange == 2
\* largest target count T of a discovery run
MaxTarget == 3
\* largest number of anchors the feed ever shows
MaxCount == 3
\* number of polls (scrolls) after which the feed has stopped changing
MaxPolls == 4
\* largest page height the feed reports
MaxHeight == 2

(***************************************************************************)
(* Values.  None is Python's None; "" is the empty string.  Both are       *)
(* falsy.                                                                  *)
(***************************************************************************)
NoneV == "None"

Falsy(x) == x \in {"", NoneV}

Min(a, b) == IF a <= b THEN a ELSE b

Max(a, b) == IF a >= b THEN a ELSE b

Last(s) == s[Len(s)]

VARIABLES
  variant,      \* "scraper" (src/scraper.py) or "main" (src/main.py)
  businesses,   \* BusinessList.businesses / BusinessList.business_list
  seen,         \* BusinessList.seen / BusinessList._seen_businesses: hash values
  hashOf,       \* the values hash() has returned so far, by hashed tuple
  submitted,    \* history: every Business the caller of the Deduplicator
                \* specification passed to add / add_business, in order
  pc,           \* position of the scraping run: "idle", "search", "scroll",
                \* "materialize", "extract", "done", "noresults"
  total,        \* the target count T (args.total / total)
  search,       \* the search query
  previously_counted,      \* main.py scroll loop
  consecutive_same_count,  \* main.py scroll loop
  last_height,  \* scraper.py scroll loop
  polls,        \* history: the anchor counts polled by the scroll loop, in order
  found,        \* number of anchors returned by the query after the loop
  links,        \* listings_to_scrape / links: the listing handles handed over
  idx,          \* number of listings the listing loop has gone through
  event         \* history: what the latest iteration of the listing loop did:
                \* the listing, whether its click succeeded, the step that
                \* raised out of the iteration, whether add was called, and
                \* then the Business passed and its fields that had failed

VARIABLES
  ppc,             \* where run_pipeline is
  workers,         \* run_pipeline's argument `workers`
  websites,        \* df["website"].fillna("").tolist()
  contact_results, \* the list of result slots, one dict per row
  next_i,          \* position of enumerate(websites) in the submission loop
  future_to_idx,   \* k-th submitted future |-> index of its website
  queue,           \* the executor's work queue: futures not yet taken
  threads,         \* worker threads the executor has started
  idle,            \* the executor's idle semaphore
  fstate,          \* k-th future: "queued", "running", "done", "yielded"
  sites,           \* k-th future: the site its task met
  outcome,         \* k-th future: what the call did (raised / returned dict)
  df,              \* the contact columns of the table, row by row
  out              \* the files run_pipeline has written: <<>>, or the one table

VARIABLES
  call,            \* the function called on its own: "none" before the call
  arg,             \* its argument
  ret              \* what it returned

dedupVars == <<variant, businesses, seen, hashOf, submitted>>

discVars == <<pc, total, search, previously_counted, consecutive_same_count, last_height, polls, found, links, idx, event>>

poolVars == <<ppc, workers, websites, contact_results, next_i, future_to_idx, queue, threads, idle, fstate, sites, outcome, df, out>>

fnVars == <<call, arg, ret>>

vars == <<variant, businesses, seen, hashOf, submitted, pc, total, search, previously_counted, consecutive_same_count, last_height, polls, found, links, idx, event, ppc, workers, websites, contact_results, next_i, future_to_idx, queue, threads, idle, fstate, sites, outcome, df, out, call, arg, ret>>

Variants == {"scraper", "main"}

\* Business(): every field at its default.
NoBusiness ==
  [name |-> "", address |-> "", domain |-> "", website |-> "", phone_number |-> "",
   category |-> <<>>, location |-> <<>>,
   reviews_count |-> NoneV, latitude |-> NoneV, longitude |-> NoneV]

\* `event` before the first listing
NoEvent ==
  [link |-> 0, click |-> FALSE, raised |-> "none", emitted |-> FALSE, failed |-> {},
   b |-> NoBusiness]

(***************************************************************************)
(* Business (dataclass).  One record shape serves both variants.  A text   *)
(* made of words (category, location) is the sequence of its words; the    *)
(* empty text is <<>>.                                                     *)
(***************************************************************************)
Business(name, address, domain, website, phone) ==
  [name |-> name, address |-> address, domain |-> domain,
   website |-> website, phone_number |-> phone,
   category |-> <<>>, location |-> <<>>,
   reviews_count |-> NoneV, latitude |-> NoneV, longitude |-> NoneV]

\* The identity key of the data model: (name, website, domain, phone).
IdentityKey(b) == <<b.name, b.website, b.domain, b.phone_number>>

\* scraper.py Business.__hash__: the tuple that is hashed.
HashFieldsScraper_WithAddress(b) ==
  <<b.name, b.website, b.domain, b.phone_number, b.address>>

HashFieldsScraper(b) == <<b.name, b.website, b.domain, b.phone_number>>

\* main.py Business.__hash__: name, then one tagged entry per truthy
\* contact field; f"domain:{x}" is the pair <<"domain:", x>>.
HashFieldsMain(b) ==
  <<b.name>>
    \o (IF Falsy(b.domain) THEN <<>> ELSE << <<"domain:", b.domain>> >>)
    \o (IF Falsy(b.website) THEN <<>> ELSE << <<"website:", b.website>> >>)
    \o (IF Falsy(b.phone_number) THEN <<>> ELSE << <<"phone:", b.phone_number>> >>)

HashFields(v, b) == IF v = "scraper" THEN HashFieldsScraper(b) ELSE HashFieldsMain(b)

\* hash(tuple): a fixed but unknown function into a finite range.  A tuple
\* hashed before keeps its value.  Hash values are only ever compared for
\* equality, so they are named in order of first appearance: a new tuple
\* gets the value of a tuple hashed before (a collision) or the next value
\* of the range not yet returned.
HashValues == 0 .. (HashRange - 1)

Returned(h) == {h[t] : t \in DOMAIN h}

HashChoices(h, t) ==
  IF t \in DOMAIN h THEN {h[t]}
  ELSE Returned(h) \cup {k \in HashValues : k = Cardinality(Returned(h))}

Remember(h, t, k) == IF t \in DOMAIN h THEN h ELSE h @@ (t :> k)

\* `if key not in self.seen`
NotSeen_Always(key, s) == TRUE

NotSeen(key, s) == key \notin s

\* BusinessList.add (scraper.py) and BusinessList.add_business (main.py):
\* the next values of the store when b is added and hash(b) returns key.
AddResult(b, key, bl, s) ==
  IF NotSeen(key, s)
    THEN [businesses |-> Append(bl, b), seen |-> s \cup {key}]
    ELSE [businesses |-> bl, seen |-> s]

\* One call of add / add_business on the store of this behaviour.
AddCall(b) ==
  \E key \in HashChoices(hashOf, HashFields(variant, b)) :
    LET r == AddResult(b, key, businesses, seen) IN
      /\ hashOf' = Remember(hashOf, HashFields(variant, b), key)
      /\ businesses' = r.businesses
      /\ seen' = r.seen

(***************************************************************************)
(* The Deduplicator on its own: any sequence of add calls.                 *)
(***************************************************************************)
BaseBusiness == Business("n1", "a1", "w1", "https://w1", "p1")

\* Records that differ from the base in exactly one field, and the base.
SubmitPool ==
  { BaseBusiness,
    [BaseBusiness EXCEPT !.address = "a2"],
    [BaseBusiness EXCEPT !.name = "n2"],
    [BaseBusiness EXCEPT !.website = ""],
    [BaseBusiness EXCEPT !.domain = ""],
    [BaseBusiness EXCEPT !.phone_number = ""] }

EmptyStore ==
  /\ businesses = <<>>
  /\ seen = {}
  /\ hashOf = <<>>
  /\ submitted = <<>>

\* No scraping run: the store is used on its own.
NoRun ==
  /\ pc = "idle"
  /\ total = 0
  /\ search = ""
  /\ previously_counted = 0
  /\ consecutive_same_count = 0
  /\ last_height = 0
  /\ polls = <<>>
  /\ found = 0
  /\ links = <<>>
  /\ idx = 0
  /\ event = NoEvent

\* No function is called on its own.
NoCall ==
  /\ call = "none"
  /\ arg = <<>>
  /\ ret = <<>>

\* run_pipeline has not got past scrape_gmaps.
NoPipeline ==
  /\ ppc = "scrape"
  /\ workers = 1
  /\ websites = <<>>
  /\ contact_results = <<>>
  /\ next_i = 0
  /\ future_to_idx = <<>>
  /\ queue = <<>>
  /\ threads = 0
  /\ idle = 0
  /\ fstate = <<>>
  /\ sites = <<>>
  /\ outcome = <<>>
  /\ df = <<>>
  /\ out = <<>>

InitDedup ==
  /\ variant \in Variants
  /\ EmptyStore
  /\ NoRun
  /\ NoPipeline
  /\ NoCall

Add(b) ==
  /\ variant = "scraper"
  /\ Len(submitted) < MaxSubmit
  /\ AddCall(b)
  /\ submitted' = Append(submitted, b)
  /\ UNCHANGED <<variant, discVars, poolVars, fnVars>>

AddBusiness(b) ==
  /\ variant = "main"
  /\ Len(submitted) < MaxSubmit
  /\ AddCall(b)
  /\ submitted' = Append(submitted, b)
  /\ UNCHANGED <<variant, discVars, poolVars, fnVars>>

NextDedup ==
  \/ \E b \in SubmitPool : Add(b)
  \/ \E b \in SubmitPool : AddBusiness(b)

SpecDedup == InitDedup /\ [][NextDedup]_vars

(***************************************************************************)
(* C1 -- Idempotence of the Deduplicator: when add is called with a record *)
(* whose identity key equals that of the record of the call just before,   *)
(* the second call leaves the accepted list and the seen set unchanged.    *)
(***************************************************************************)
SecondCallSameKey ==
  /\ Len(submitted) >= 1
  /\ Len(submitted') = Len(submitted) + 1
  /\ IdentityKey(Last(submitted')) = IdentityKey(Last(submitted))

C1_Idempotent ==
  [][SecondCallSameKey => (businesses' = businesses /\ seen' = seen)]_vars

\* two consecutive calls with one identity key and different other fields
C1_Witness ==
  /\ Len(submitted) >= 2
  /\ IdentityKey(submitted[Len(submitted)]) = IdentityKey(submitted[Len(submitted) - 1])
  /\ submitted[Len(submitted)] # submitted[Len(submitted) - 1]
  /\ Len(businesses) >= 1

(***************************************************************************)
(* C2 -- Uniqueness: no two records of the accepted list have the same     *)
(* identity key (name, website, domain, phone).                            *)
(***************************************************************************)
C2_UniqueKeys ==
  \A i, j \in 1 .. Len(businesses) :
    i # j => IdentityKey(businesses[i]) # IdentityKey(businesses[j])

\* two records accepted and a third submission rejected
C2_Witness ==
  /\ Len(businesses) >= 2
  /\ Len(submitted) > Len(businesses)
  /\ \E i, j \in 1 .. Len(submitted) :
       i # j /\ IdentityKey(submitted[i]) = IdentityKey(submitted[j])

(***************************************************************************)
(* C3 -- First-seen wins in discovery order: the accepted list is exactly  *)
(* the subsequence of the submissions made of the first submission of each *)
(* distinct identity key, in submission order.                             *)
(***************************************************************************)
IsFirstOfKey(s, i) ==
  \A j \in 1 .. (i - 1) : IdentityKey(s[j]) # IdentityKey(s[i])

RECURSIVE FirstOccurrences(_, _)
FirstOccurrences(s, n) ==
  IF n = 0 THEN <<>>
  ELSE IF IsFirstOfKey(s, n)
    THEN Append(FirstOccurrences(s, n - 1), s[n])
    ELSE FirstOccurrences(s, n - 1)

StagnationLimit == 3

\* A search query is the sequence of its words; " in " is the word "in".
Queries ==
  { <<"bakeries">>,
    <<"cafes", "in", "barcelona">>,
    <<"cafes", "in", "hotels", "in", "barcelona">> }

Targets == 1 .. MaxTarget

Counts == 0 .. MaxCount

Heights == 0 .. MaxHeight

\* page.locator(...).all(): the handles of n anchors, in document order.
Anchors(n) == [i \in 1 .. n |-> i]

\* Python's s[:n].
SlicePrefix_Whole(s, n) == s

SlicePrefix(s, n) ==
  IF n >= 0 THEN SubSeq(s, 1, Min(n, Len(s)))
  ELSE SubSeq(s, 1, Max(Len(s) + n, 0))

\* One pass of the body of main.py's `while True` with the polled count:
\* whether it breaks, and the new values of its two locals.
ScrollStep_NoReset(count, T, prev, same) ==
  IF count >= T
    THEN [exit |-> TRUE, prev |-> prev, same |-> same]
    ELSE IF count = prev
      THEN [exit |-> same + 1 >= StagnationLimit, prev |-> prev, same |-> same + 1]
      ELSE [exit |-> FALSE, prev |-> count, same |-> same]

ScrollStep(count, T, prev, same) ==
  IF count >= T
    THEN [exit |-> TRUE, prev |-> prev, same |-> same]
    ELSE IF count = prev
      THEN [exit |-> same + 1 >= StagnationLimit, prev |-> prev, same |-> same + 1]
      ELSE [exit |-> FALSE, prev |-> count, same |-> 0]

\* A run starts with an empty store, before the query is submitted.
RunStart ==
  /\ variant \in Variants
  /\ EmptyStore
  /\ pc = "search"
  /\ total \in Targets
  /\ search \in Queries
  /\ previously_counted = 0
  /\ consecutive_same_count = 0
  /\ last_height = 0
  /\ polls = <<>>
  /\ found = 0
  /\ links = <<>>
  /\ idx = 0
  /\ event = NoEvent
  /\ NoPipeline
  /\ NoCall

\* The query is submitted and the first result anchor is awaited
\* (main.py 136-153, scraper.py 439-459).
Search(appears, height) ==
  /\ pc = "search"
  /\ pc' = IF appears THEN "scroll" ELSE "noresults"
  /\ last_height' = IF appears /\ variant = "scraper" THEN height ELSE last_height
  /\ UNCHANGED <<dedupVars, total, search, previously_counted, consecutive_same_count, polls, found, links, idx, event, poolVars, fnVars>>

\* The feed stops changing after MaxPolls polls: from then on a poll
\* returns what the poll before it returned.
FeedAllows(now, before) == IF Len(polls) < MaxPolls THEN TRUE ELSE now = before

\* main.py 160-181: one iteration of the scroll loop.
PollMain(count) ==
  /\ pc = "scroll"
  /\ variant = "main"
  /\ FeedAllows(count, IF polls = <<>> THEN 0 ELSE Last(polls))
  /\ LET r == ScrollStep(count, total, previously_counted, consecutive_same_count) IN
       /\ pc' = IF r.exit THEN "materialize" ELSE "scroll"
       /\ previously_counted' = r.prev
       /\ consecutive_same_count' = r.same
  /\ polls' = Append(polls, count)
  /\ UNCHANGED <<dedupVars, total, search, last_height, found, links, idx, event, poolVars, fnVars>>

\* scraper.py 461-473: one iteration of the scroll loop.
ScrollScraper(count, new_height) ==
  /\ pc = "scroll"
  /\ variant = "scraper"
  /\ Len(businesses) < total
  /\ FeedAllows(new_height, last_height)
  /\ polls' = Append(polls, count)
  /\ IF count >= total
       THEN /\ links' = SlicePrefix(Anchors(count), total)
            /\ pc' = "materialize"
            /\ UNCHANGED last_height
       ELSE /\ links' = Anchors(count)
            /\ pc' = IF new_height = last_height THEN "materialize" ELSE "scroll"
            /\ last_height' = new_height
  /\ UNCHANGED <<dedupVars, total, search, previously_counted, consecutive_same_count, found, idx, event, poolVars, fnVars>>

\* main.py 187-188 and scraper.py 476: the anchors are queried again and
\* the first `total` of them are the listings to scrape.
Materialize(n) ==
  /\ pc = "materialize"
  /\ found' = n
  /\ links' = SlicePrefix(Anchors(n), total)
  /\ idx' = 0
  /\ pc' = "extract"
  /\ UNCHANGED <<dedupVars, total, search, previously_counted, consecutive_same_count, last_height, polls, event, poolVars, fnVars>>

NextDiscovery ==
  \/ \E appears \in BOOLEAN, h \in Heights : Search(appears, h)
  \/ \E c \in Counts : PollMain(c)
  \/ \E c \in Counts, h \in Heights : ScrollScraper(c, h)
  \/ \E n \in Counts : Materialize(n)

SpecDiscovery == RunStart /\ [][NextDiscovery]_vars

(***************************************************************************)
(* Detail extraction: the listing loop (scraper.py 479-527, main.py        *)
(* 190-261).  What the detail pane of a listing does is a Page: whether    *)
(* the click succeeds, and per element "ok" (it resolves and its text is   *)
(* read), "missing" (no element matches) or "raise" (the read raises).     *)
(***************************************************************************)
\* largest target count T of an extraction run
MaxListings == 2

ElemFields == {"name", "address", "website", "phone", "reviews"}

Outcomes == {"ok", "missing", "raise"}

\* page.url: the text before the first "/@", then one entry per "/@": the
\* comma-separated components up to the next "/"; a component is a number
\* (float() accepts it) or not.
Num(v) == [num |-> TRUE, val |-> v]

Txt(v) == [num |-> FALSE, val |-> v]

UrlPool ==
  { <<"maps/place/x">>,
    <<"maps/place/x", <<Num("41.38"), Num("2.17"), Txt("15z")>> >>,
    <<"maps/place/x", <<Num("41.38")>> >> }

\* A page whose click raises, and the pages whose click succeeds.
ClickFails ==
  [click |-> FALSE, nameText |-> "n1", status |-> [f \in ElemFields |-> "raise"],
   url |-> <<"maps/place/x">>]

Pages ==
  {ClickFails} \cup
  [click : {TRUE}, nameText : {"n1"}, status : [ElemFields -> Outcomes], url : UrlPool]

\* extract_coordinates with each component converted on its own.
extract_coordinates_Componentwise(url) ==
  IF Len(url) < 2 THEN <<NoneV, NoneV>>
  ELSE LET coords == url[2] IN
    << IF Len(coords) >= 1 /\ coords[1].num THEN coords[1].val ELSE NoneV,
       IF Len(coords) >= 2 /\ coords[2].num THEN coords[2].val ELSE NoneV >>

\* scraper.py extract_coordinates
extract_coordinates(url) ==
  IF Len(url) < 2 THEN <<NoneV, NoneV>>
  ELSE LET coords == url[2] IN
    IF Len(coords) >= 2 /\ coords[1].num /\ coords[2].num
      THEN <<coords[1].val, coords[2].val>>
      ELSE <<NoneV, NoneV>>

\* main.py extract_coordinates_from_url
extract_coordinates_from_url(url) ==
  IF Len(url) < 2 THEN <<NoneV, NoneV>>
  ELSE LET parts == url[Len(url)] IN
    IF Len(parts) >= 2 /\ parts[1].num /\ parts[2].num
      THEN <<parts[1].val, parts[2].val>>
      ELSE <<NoneV, NoneV>>

\* str.lower() and str.title() on the words of the queries.
LowerWord(w) ==
  CASE w = "Barcelona" -> "barcelona"
    [] OTHER -> w

TitleWord(w) ==
  CASE w = "bakeries" -> "Bakeries"
    [] w = "cafes" -> "Cafes"
    [] w = "hotels" -> "Hotels"
    [] w = "barcelona" -> "Barcelona"
    [] w = "in" -> "In"
    [] OTHER -> w

Lower(t) == [i \in 1 .. Len(t) |-> LowerWord(t[i])]

Title(t) == [i \in 1 .. Len(t) |-> TitleWord(t[i])]

\* `" in " in t`: the word "in" with a word on each side.
HasIn(t) == \E i \in 2 .. (Len(t) - 1) : t[i] = "in"

\* t.split(" in "): the texts between the separators, left to right.
RECURSIVE SplitIn(_, _, _)
SplitIn(t, i, cur) ==
  IF i > Len(t) THEN <<cur>>
  ELSE IF t[i] = "in" /\ i > 1 /\ i < Len(t) /\ cur # <<>>
    THEN <<cur>> \o SplitIn(t, i + 1, <<>>)
    ELSE SplitIn(t, i + 1, Append(cur, t[i]))

\* scraper.py 516-520: <<raises, category, location>>
CategoryScraper(q) ==
  IF HasIn(Lower(q))
    THEN LET parts == SplitIn(Lower(q), 1, <<>>) IN
      IF Len(parts) = 2
        THEN [raises |-> FALSE, category |-> Title(parts[1]), location |-> Title(parts[2])]
        ELSE [raises |-> TRUE, category |-> <<>>, location |-> <<>>]
    ELSE [raises |-> FALSE, category |-> Title(q), location |-> <<>>]

\* main.py 245-251
CategoryMain(q) ==
  IF HasIn(q)
    THEN LET parts == SplitIn(q, 1, <<>>) IN
      [raises |-> FALSE, category |-> parts[1], location |-> parts[Len(parts)]]
    ELSE [raises |-> FALSE, category |-> q, location |-> <<"N/A">>]

\* The fields of a Business the extractor fills, as the claims name them.
Fields == {"name", "address", "website", "phone", "reviews", "coordinates", "category"}

\* The body of the listing loop with link.click outside the try.
ListingScraper_Result_ClickUnguarded(page, q) ==
  LET st == page.status
      xy == extract_coordinates(page.url)
      cat == CategoryScraper(q)
      b == [name |-> IF st["name"] = "ok" THEN page.nameText ELSE "Nombre no encontrado",
            address |-> IF st["address"] = "ok" THEN "a1" ELSE "",
            website |-> IF st["website"] = "ok" THEN "https://w1" ELSE "",
            domain |-> IF st["website"] = "ok" THEN "w1" ELSE "",
            phone_number |-> IF st["phone"] = "ok" THEN "p1" ELSE "",
            category |-> cat.category, location |-> cat.location,
            reviews_count |-> NoneV, latitude |-> xy[1], longitude |-> xy[2]]
  IN [raised |-> IF cat.raises THEN "category" ELSE "none",
      b |-> b,
      failed |-> {f \in {"name", "address", "website", "phone"} : st[f] # "ok"}
                 \cup (IF xy[1] = NoneV THEN {"coordinates"} ELSE {})
                 \cup (IF cat.raises THEN {"category"} ELSE {})]

\* scraper.py 480-522: the outcome of the body of the listing loop on a page:
\* the step whose exception reaches the `except` of the loop ("none": bl.add
\* is reached), the Business built, the fields whose extraction failed.
ListingScraper_Result(page, q) ==
  LET st == page.status
      xy == extract_coordinates(page.url)
      cat == CategoryScraper(q)
      b == [name |-> IF st["name"] = "ok" THEN page.nameText ELSE "Nombre no encontrado",
            address |-> IF st["address"] = "ok" THEN "a1" ELSE "",
            website |-> IF st["website"] = "ok" THEN "https://w1" ELSE "",
            domain |-> IF st["website"] = "ok" THEN "w1" ELSE "",
            phone_number |-> IF st["phone"] = "ok" THEN "p1" ELSE "",
            category |-> cat.category, location |-> cat.location,
            reviews_count |-> NoneV, latitude |-> xy[1], longitude |-> xy[2]]
  IN [raised |-> IF ~page.click THEN "click" ELSE IF cat.raises THEN "category" ELSE "none",
      b |-> b,
      failed |-> {f \in {"name", "address", "website", "phone"} : st[f] # "ok"}
                 \cup (IF xy[1] = NoneV THEN {"coordinates"} ELSE {})
                 \cup (IF cat.raises THEN {"category"} ELSE {})]

\* The order in which main.py reads the elements.
ReadOrder == <<"name", "address", "website", "phone", "reviews">>

\* main.py: the first read that raises, 0 when none does.
FirstRaise(st) ==
  IF st["name"] # "ok" THEN 1
  ELSE IF \E i \in 2 .. 5 : st[ReadOrder[i]] = "raise"
    THEN CHOOSE i \in 2 .. 5 :
           /\ st[ReadOrder[i]] = "raise"
           /\ \A j \in 2 .. (i - 1) : st[ReadOrder[j]] # "raise"
    ELSE 0

\* main.py 191-255: no read is guarded, so a read that raises ends the
\* iteration in the `except` of the loop; inner_text() on the name raises
\* when no element matches.
ListingMain_Result(page, q) ==
  LET st == page.status
      xy == extract_coordinates_from_url(page.url)
      cat == CategoryMain(q)
      b == [name |-> page.nameText,
            address |-> IF st["address"] = "ok" THEN "a1" ELSE "",
            website |-> IF st["website"] = "ok" THEN "https://w1" ELSE "",
            domain |-> IF st["website"] = "ok" THEN "w1" ELSE NoneV,
            phone_number |-> IF st["phone"] = "ok" THEN "p1" ELSE "",
            category |-> cat.category, location |-> cat.location,
            reviews_count |-> IF st["reviews"] = "ok" THEN "12" ELSE "",
            latitude |-> xy[1], longitude |-> xy[2]]
  IN [raised |-> IF ~page.click THEN "click"
                 ELSE IF FirstRaise(st) # 0 THEN ReadOrder[FirstRaise(st)]
                 ELSE "none",
      b |-> b,
      failed |-> {f \in ElemFields : st[f] # "ok"}
                 \cup (IF xy[1] = NoneV THEN {"coordinates"} ELSE {})]

ListingResult(v, page, q) ==
  IF v = "scraper" THEN ListingScraper_Result(page, q) ELSE ListingMain_Result(page, q)

\* The pages a variant can tell apart.  scraper.py reads no review element
\* and treats a missing element as a read that raises (a timeout); main.py
\* reads nothing after the first read that raises.
ScraperTellsApart(pg) ==
  /\ pg.status["reviews"] = "ok"
  /\ \A f \in ElemFields : pg.status[f] # "missing"

MainTellsApart(pg) ==
  \A i \in 1 .. 5 :
    (FirstRaise(pg.status) # 0 /\ i > FirstRaise(pg.status))
      => pg.status[ReadOrder[i]] = "ok"

PagesScraper == {ClickFails} \cup {pg : pg \in {x \in Pages : x.click /\ ScraperTellsApart(x)}}

PagesMain == {ClickFails} \cup {pg : pg \in {x \in Pages : x.click /\ MainTellsApart(x)}}

PagesOf(v) == IF v = "scraper" THEN PagesScraper ELSE PagesMain

\* One iteration of `for ... in enumerate(links)`.
Listing(page) ==
  /\ pc = "extract"
  /\ idx < Len(links)
  /\ LET r == ListingResult(variant, page, search) IN
       /\ IF r.raised = "none"
            THEN AddCall(r.b)
            ELSE UNCHANGED <<businesses, seen, hashOf>>
       /\ event' = [link |-> links[idx + 1], click |-> page.click,
                     raised |-> r.raised,
                     emitted |-> r.raised = "none",
                     failed |-> IF r.raised = "none" THEN r.failed ELSE {},
                     b |-> IF r.raised = "none" THEN r.b ELSE NoBusiness]
  /\ idx' = idx + 1
  /\ UNCHANGED <<variant, submitted, pc, total, search, previously_counted, consecutive_same_count, last_height, polls, found, links, poolVars, fnVars>>

\* The loop is over: main.py saves the list, scrape_gmaps returns it.
FinishListings ==
  /\ pc = "extract"
  /\ idx = Len(links)
  /\ pc' = "done"
  /\ UNCHANGED <<dedupVars, total, search, previously_counted, consecutive_same_count, last_height, polls, found, links, idx, event, poolVars, fnVars>>

\* The scroll loop has just been left at its first poll, the count having
\* reached the target.
LoopLeft ==
  /\ variant \in Variants
  /\ EmptyStore
  /\ pc = "materialize"
  /\ total \in 1 .. MaxListings
  /\ search \in Queries
  /\ previously_counted = 0
  /\ consecutive_same_count = 0
  /\ last_height = 0
  /\ polls = <<total>>
  /\ found = 0
  /\ links = IF variant = "scraper" THEN Anchors(total) ELSE <<>>
  /\ idx = 0
  /\ event = NoEvent
  /\ NoPipeline
  /\ NoCall

NextExtract ==
  \/ \E n \in Counts : Materialize(n)
  \/ \E page \in PagesOf(variant) : Listing(page)
  \/ FinishListings

SpecExtract == LoopLeft /\ [][NextExtract]_vars

(***************************************************************************)
(* Contact enrichment of one website: smart_email_scrape (scraper.py       *)
(* 140-231).  A dict is the set of its keys and the value of each key.     *)
(***************************************************************************)
ContactKeys ==
  {"email", "email_source", "instagram_username", "instagram_url",
   "whatsapp_number", "facebook_url", "tiktok_username", "tiktok_url",
   "linkedin_url"}

\* {}
EmptyDict == [keys |-> {}, val |-> [k \in ContactKeys |-> ""]]

\* `result` as smart_email_scrape creates it: every key, every value "".
BlankResult == [keys |-> ContactKeys, val |-> [k \in ContactKeys |-> ""]]

\* d.get(k, "")
Get(d, k) == IF k \in d.keys THEN d.val[k] ELSE ""

\* d[k] = v, for k a key of d
Put(d, k, v) == [d EXCEPT !.val[k] = v]

\* website.strip().rstrip("/"), with "https://" put in front when the text
\* does not start with "http".
Base(website) ==
  CASE website = "https://w1/" -> "https://w1"
    [] website = "w2" -> "https://w2"
    [] OTHER -> website

\* f"https://instagram.com/{username}" and f"https://tiktok.com/@{username}"
InstagramUrl(u) ==
  CASE u = "shop" -> "https://instagram.com/shop"
    [] OTHER -> "https://instagram.com/"

TiktokUrl(u) ==
  CASE u = "shop" -> "https://tiktok.com/@shop"
    [] OTHER -> "https://tiktok.com/@"

\* An <a href>: the platform its href names, the group the platform's regex
\* captures ("" when it does not match) and its length, the href cut at
\* "?" / "#" with the final "/" removed, the number of "/" in that, and
\* whether the href holds "/in/" or "/company/".
Anchor(host, m, mlen, clean, slashes, profile) ==
  [host |-> host, m |-> m, mlen |-> mlen, clean |-> clean, slashes |-> slashes,
   profile |-> profile]

ReservedPrefix(u) == u \in {"explore", "accounts", "reel", "reels"}

\* scraper.py 181-197: the Instagram branch for one anchor.  ig_html is
\* what fetch_html returns for the profile page: None, or the first
\* email-shaped token of the page ("" when it has none).
ScanInstagram(r, a, ig_html) ==
  IF a.host = "instagram.com" /\ Get(r, "instagram_username") = ""
       /\ a.m # "" /\ a.m # "p" /\ ~ReservedPrefix(a.m) /\ 3 <= a.mlen /\ a.mlen <= 30
    THEN LET r1 == Put(Put(r, "instagram_username", a.m), "instagram_url", InstagramUrl(a.m)) IN
      IF ig_html # NoneV /\ ig_html # "" /\ Get(r1, "email") = ""
        THEN Put(Put(r1, "email", ig_html), "email_source", Get(r1, "instagram_url"))
        ELSE r1
    ELSE r

\* scraper.py 200-207
ScanTiktok(r, a) ==
  IF a.host = "tiktok.com" /\ Get(r, "tiktok_username") = ""
       /\ a.m # "" /\ 1 <= a.mlen /\ a.mlen <= 40
    THEN Put(Put(r, "tiktok_username", a.m), "tiktok_url", TiktokUrl(a.m))
    ELSE r

\* The WhatsApp branch without the test that the number is still empty.
ScanWhatsapp_LastWins(r, a) ==
  IF a.host \in {"wa.me", "api.whatsapp.com"} /\ a.m # ""
    THEN Put(r, "whatsapp_number", a.m)
    ELSE r

\* scraper.py 210-215
ScanWhatsapp(r, a) ==
  IF a.host \in {"wa.me", "api.whatsapp.com"} /\ Get(r, "whatsapp_number") = "" /\ a.m # ""
    THEN Put(r, "whatsapp_number", a.m)
    ELSE r

\* scraper.py 218-222
ScanFacebook(r, a) ==
  IF a.host = "facebook.com" /\ Get(r, "facebook_url") = "" /\ a.slashes >= 3
    THEN Put(r, "facebook_url", a.clean)
    ELSE r

\* scraper.py 225-229
ScanLinkedin(r, a) ==
  IF a.host = "linkedin.com" /\ Get(r, "linkedin_url") = "" /\ a.profile
    THEN Put(r, "linkedin_url", a.clean)
    ELSE r

\* scraper.py 176-229: the body of the loop for one anchor.
ScanAnchor(r, a, ig_html) ==
  ScanLinkedin(ScanFacebook(ScanWhatsapp(ScanTiktok(ScanInstagram(r, a, ig_html), a), a), a), a)

RECURSIVE ScanAnchors(_, _, _, _)
ScanAnchors(r, anchors, i, ig_html) ==
  IF i > Len(anchors) THEN r
  ELSE ScanAnchors(ScanAnchor(r, anchors[i], ig_html), anchors, i + 1, ig_html)

\* A website, as the enricher meets it: html is None when fetch_html
\* fails; crash says that parsing the page raises; email is what
\* extract_email returns for the page ("" for None); anchors are its
\* <a href> in document order; ig_html is the Instagram profile page.
Site(html, crash, email, anchors, ig_html) ==
  [html |-> html, crash |-> crash, email |-> email, anchors |-> anchors, ig_html |-> ig_html]

\* smart_email_scrape that notes the source before it fetches.
smart_email_scrape_SourceBeforeFetch(website, site) ==
  IF website = "" THEN [raises |-> FALSE, data |-> BlankResult]
  ELSE IF site.html = NoneV
    THEN [raises |-> FALSE, data |-> Put(BlankResult, "email_source", Base(website))]
  ELSE IF site.crash THEN [raises |-> TRUE, data |-> BlankResult]
  ELSE LET r0 == IF site.email # ""
                   THEN Put(Put(BlankResult, "email", site.email), "email_source", Base(website))
                   ELSE BlankResult
       IN [raises |-> FALSE, data |-> ScanAnchors(r0, site.anchors, 1, site.ig_html)]

\* smart_email_scrape(website) on a site: whether it raises, and the dict
\* it returns.
smart_email_scrape(website, site) ==
  IF website = "" THEN [raises |-> FALSE, data |-> BlankResult]
  ELSE IF site.html = NoneV THEN [raises |-> FALSE, data |-> BlankResult]
  ELSE IF site.crash THEN [raises |-> TRUE, data |-> BlankResult]
  ELSE LET r0 == IF site.email # ""
                   THEN Put(Put(BlankResult, "email", site.email), "email_source", Base(website))
                   ELSE BlankResult
       IN [raises |-> FALSE, data |-> ScanAnchors(r0, site.anchors, 1, site.ig_html)]

(***************************************************************************)
(* run_pipeline (scraper.py 543-586) after scrape_gmaps has returned: the  *)
(* executor, the collection loop, the merge and the save.                  *)
(***************************************************************************)
MaxBiz == 2
MaxWorkers == 2

\* Businesses a scrape can leave in the store: with and without a website.
Scrape(name, domain, website) ==
  [Business(name, "", domain, website, "") EXCEPT
     !.category = <<"Cafes">>, !.location = <<"Barcelona">>]

BizPool ==
  {Scrape("n1", "w1", "https://w1/"), Scrape("n2", "", ""), Scrape("n3", "w1", "https://w1/")}

RECURSIVE Distinct(_)
Distinct(s) ==
  IF Len(s) <= 1 THEN TRUE
  ELSE (\A i \in 2 .. Len(s) : s[i] # s[1]) /\ Distinct(Tail(s))

BizLists ==
  {bs : bs \in {x \in UNION {[1 .. n -> BizPool] : n \in 0 .. MaxBiz} : Distinct(x)}}

\* What the websites of a run can do.
SiteDown == Site(NoneV, FALSE, "", <<>>, NoneV)

SiteCrash == Site("html", TRUE, "", <<>>, NoneV)

SiteRich ==
  Site("html", FALSE, "info@w1",
       << Anchor("instagram.com", "shop", 4, "https://instagram.com/shop", 3, FALSE),
          Anchor("tiktok.com", "shop", 4, "https://tiktok.com/@shop", 3, FALSE),
          Anchor("wa.me", "34600", 5, "https://wa.me/34600", 3, FALSE),
          Anchor("facebook.com", "", 0, "https://facebook.com/shop", 3, FALSE),
          Anchor("linkedin.com", "", 0, "https://linkedin.com/company/shop", 4, TRUE) >>,
       "bio@ig")

SiteInstagram ==
  Site("html", FALSE, "",
       << Anchor("instagram.com", "p", 1, "https://instagram.com/p/xyz", 4, FALSE),
          Anchor("facebook.com", "", 0, "https://facebook.com", 2, FALSE),
          Anchor("instagram.com", "shop", 4, "https://instagram.com/shop", 3, FALSE),
          Anchor("instagram.com", "other", 5, "https://instagram.com/other", 3, FALSE) >>,
       "bio@ig")

SitePool == {SiteDown, SiteCrash, SiteRich, SiteInstagram}

\* `sites` / `outcome` of a future whose task has not got that far
NoSite == Site(NoneV, FALSE, "", <<>>, "unmet")

NoOutcome == [raises |-> FALSE, data |-> EmptyDict]

\* asdict(Business) as scrape_gmaps leaves it: the contact columns of a row.
ContactColumns == [k \in ContactKeys |-> ""]

\* scraper.py 576-577: the keys the merge loop goes through.
MergeKeys ==
  {"email", "email_source", "instagram_username", "instagram_url",
   "whatsapp_number", "facebook_url"}

\* ThreadPoolExecutor(max_workers=workers): the most threads it starts,
\* however many calls n have been submitted.
ThreadLimit_PerCall(w, n) == n

ThreadLimit(w, n) == w

\* idx = future_to_idx[future]
SlotOfFuture_Ordinal(f2i, k) == k

SlotOfFuture(f2i, k) == f2i[k]

\* The call the k-th future runs: smart_email_scrape(w) on the site the
\* task met.  met is the sequence of the sites of all futures.
TaskCall_SharedSession(w, k, met) ==
  IF \E j \in 1 .. Len(met) : met[j] = SiteDown
    THEN smart_email_scrape(w, SiteDown)
    ELSE smart_email_scrape(w, met[k])

TaskCall(w, k, met) == smart_email_scrape(w, met[k])

Running == {k \in 1 .. Len(fstate) : fstate[k] = "running"}

\* scrape_gmaps has returned a store.
Scraped ==
  /\ variant = "scraper"
  /\ businesses \in BizLists
  /\ hashOf = [t \in {HashFields(variant, businesses[i]) : i \in 1 .. Len(businesses)} |->
                 (CHOOSE i \in 1 .. Len(businesses) : HashFields(variant, businesses[i]) = t) - 1]
  /\ seen = {i - 1 : i \in 1 .. Len(businesses)}
  /\ submitted = businesses
  /\ pc = "done"
  /\ total = MaxBiz
  /\ search = <<"cafes", "in", "barcelona">>
  /\ previously_counted = 0
  /\ consecutive_same_count = 0
  /\ last_height = 0
  /\ polls = <<>>
  /\ found = 0
  /\ links = <<>>
  /\ idx = 0
  /\ event = NoEvent

PipelineStart ==
  /\ Scraped
  /\ ppc = "frame"
  /\ workers \in 1 .. MaxWorkers
  /\ websites = <<>>
  /\ contact_results = <<>>
  /\ next_i = 0
  /\ future_to_idx = <<>>
  /\ queue = <<>>
  /\ threads = 0
  /\ idle = 0
  /\ fstate = <<>>
  /\ sites = <<>>
  /\ outcome = <<>>
  /\ df = [i \in 1 .. Len(businesses) |-> ContactColumns]
  /\ out = <<>>
  /\ NoCall

\* scraper.py 549-553: nothing scraped, the empty table is saved.
SaveEmpty ==
  /\ ppc = "frame"
  /\ Len(df) = 0
  /\ ppc' = "saved"
  /\ out' = <<df>>
  /\ UNCHANGED <<dedupVars, discVars, fnVars, workers, websites, contact_results, next_i, future_to_idx, queue, threads, idle, fstate, sites, outcome, df>>

\* scraper.py 556-561: the website list, the slots, the executor.
Prepare ==
  /\ ppc = "frame"
  /\ Len(df) # 0
  /\ websites' = [i \in 1 .. Len(businesses) |-> businesses[i].website]
  /\ contact_results' = [i \in 1 .. Len(businesses) |-> EmptyDict]
  /\ next_i' = 1
  /\ ppc' = "submit"
  /\ UNCHANGED <<dedupVars, discVars, fnVars, workers, future_to_idx, queue, threads, idle, fstate, sites, outcome, df, out>>

\* scraper.py 562-565: one step of the dict comprehension; ex.submit puts
\* the call in the queue and starts a thread when none is idle and the
\* limit allows.
Submit ==
  /\ ppc = "submit"
  /\ next_i <= Len(websites)
  /\ next_i' = next_i + 1
  /\ IF websites[next_i] # ""
       THEN /\ future_to_idx' = Append(future_to_idx, next_i)
            /\ fstate' = Append(fstate, "queued")
            /\ sites' = Append(sites, NoSite)
            /\ outcome' = Append(outcome, NoOutcome)
            /\ queue' = Append(queue, Len(future_to_idx) + 1)
            /\ IF idle > 0
                 THEN idle' = idle - 1 /\ threads' = threads
                 ELSE /\ idle' = idle
                      /\ threads' = IF threads < ThreadLimit(workers, Len(future_to_idx) + 1)
                                       THEN threads + 1 ELSE threads
       ELSE UNCHANGED <<future_to_idx, fstate, sites, outcome, queue, idle, threads>>
  /\ UNCHANGED <<dedupVars, discVars, fnVars, ppc, workers, websites, contact_results, df, out>>

\* scraper.py 567: every call is submitted, as_completed starts.
AwaitFutures ==
  /\ ppc = "submit"
  /\ next_i > Len(websites)
  /\ ppc' = "collect"
  /\ UNCHANGED <<dedupVars, discVars, fnVars, workers, websites, contact_results, next_i, future_to_idx, queue, threads, idle, fstate, sites, outcome, df, out>>

\* A worker thread that runs no call takes the next call of the queue and
\* enters smart_email_scrape; the site is what it will meet there.
StartTask(site) ==
  /\ queue # <<>>
  /\ Cardinality(Running) < threads
  /\ fstate' = [fstate EXCEPT ![Head(queue)] = "running"]
  /\ sites' = [sites EXCEPT ![Head(queue)] = site]
  /\ queue' = Tail(queue)
  /\ UNCHANGED <<dedupVars, discVars, fnVars, ppc, workers, websites, contact_results, next_i, future_to_idx, threads, idle, outcome, df, out>>

\* smart_email_scrape returns or raises; the thread is idle again.
FinishTask(k) ==
  /\ k \in Running
  /\ fstate' = [fstate EXCEPT ![k] = "done"]
  /\ outcome' = [outcome EXCEPT ![k] = TaskCall(websites[future_to_idx[k]], k, sites)]
  /\ idle' = idle + 1
  /\ UNCHANGED <<dedupVars, discVars, fnVars, ppc, workers, websites, contact_results, next_i, future_to_idx, queue, threads, sites, df, out>>

\* scraper.py 567-573: as_completed yields a finished future and the main
\* thread stores its result, or {} when the call raised.
Collect(k) ==
  /\ ppc = "collect"
  /\ k \in 1 .. Len(fstate)
  /\ fstate[k] = "done"
  /\ fstate' = [fstate EXCEPT ![k] = "yielded"]
  /\ contact_results' =
       [contact_results EXCEPT ![SlotOfFuture(future_to_idx, k)] =
          IF outcome[k].raises THEN EmptyDict ELSE outcome[k].data]
  /\ UNCHANGED <<dedupVars, discVars, fnVars, ppc, workers, websites, next_i, future_to_idx, queue, threads, idle, sites, outcome, df, out>>

\* Every future has been yielded: the with block is left.
Shutdown ==
  /\ ppc = "collect"
  /\ \A k \in 1 .. Len(fstate) : fstate[k] = "yielded"
  /\ ppc' = "merge"
  /\ UNCHANGED <<dedupVars, discVars, fnVars, workers, websites, contact_results, next_i, future_to_idx, queue, threads, idle, fstate, sites, outcome, df, out>>

\* scraper.py 576-583: the merge loop and the save.
Merge ==
  /\ ppc = "merge"
  /\ df' = [i \in 1 .. Len(df) |->
              [key \in ContactKeys |->
                 IF key \in MergeKeys THEN Get(contact_results[i], key) ELSE df[i][key]]]
  /\ ppc' = "saved"
  /\ out' = <<df'>>
  /\ UNCHANGED <<dedupVars, discVars, fnVars, workers, websites, contact_results, next_i, future_to_idx, queue, threads, idle, fstate, sites, outcome>>

NextPipeline ==
  \/ SaveEmpty
  \/ Prepare
  \/ Submit
  \/ AwaitFutures
  \/ \E site \in SitePool : StartTask(site)
  \/ \E k \in 1 .. MaxBiz : FinishTask(k)
  \/ \E k \in 1 .. MaxBiz : Collect(k)
  \/ Shutdown
  \/ Merge

SpecPipeline == PipelineStart /\ [][NextPipeline]_vars

\* Every call returns or raises (requests has timeout=12), every thread
\* takes the next call, and the main thread goes on.
SpecPipelineFair == SpecPipeline /\ WF_vars(NextPipeline)

(***************************************************************************)
(* scraper.py as a whole under a user abort (Ctrl-C): scrape_gmaps, then   *)
(* run_pipeline's enrichment, with KeyboardInterrupt raised in the main    *)
(* thread.  `except Exception` does not catch it, a bare `except:` does.   *)
(***************************************************************************)
PageWith(website) ==
  [click |-> TRUE, nameText |-> "n1",
   status |-> [f \in ElemFields |-> IF f = "website" THEN website ELSE "ok"],
   url |-> <<"maps/place/x">>]

CancelPages == {ClickFails, PageWith("ok"), PageWith("raise")}

\* Pages on which a field read can be cut short by the interrupt.
SwallowPages == {PageWith("raise")}

CancelStart ==
  /\ LoopLeft
  /\ variant = "scraper"
  /\ search = <<"cafes", "in", "barcelona">>

\* scraper.py 536, 544-546: scrape_gmaps returns, run_pipeline builds df.
Handoff ==
  /\ pc = "done"
  /\ ppc = "scrape"
  /\ ppc' = "frame"
  /\ workers' \in 1 .. MaxWorkers
  /\ df' = [i \in 1 .. Len(businesses) |-> ContactColumns]
  /\ UNCHANGED <<dedupVars, discVars, fnVars, websites, contact_results, next_i, future_to_idx, queue, threads, idle, fstate, sites, outcome, out>>

\* Ctrl-C between two listings or inside link.click: the exception passes
\* `except Exception` (525, 529), `finally` closes the browser, nothing
\* catches it in run_pipeline, and __main__ (612-614) prints and exits.
InterruptListing ==
  /\ pc = "extract"
  /\ ppc = "scrape"
  /\ pc' = "interrupted"
  /\ ppc' = "exit"
  /\ UNCHANGED <<dedupVars, fnVars, total, search, previously_counted, consecutive_same_count, last_height, polls, found, links, idx, event, workers, websites, contact_results, next_i, future_to_idx, queue, threads, idle, fstate, sites, outcome, df, out>>

\* Ctrl-C inside a guarded field read: the bare `except:` (489-511) takes
\* it for a failed read and the loop goes on.
InterruptSwallowed(page) ==
  /\ ppc = "scrape"
  /\ Listing(page)

\* Ctrl-C while submitting or inside as_completed: the with block is left
\* through the exception, and its exit waits for the calls already handed
\* to the executor.
InterruptEnrichment ==
  /\ ppc \in {"submit", "collect"}
  /\ ppc' = "unwind"
  /\ UNCHANGED <<dedupVars, discVars, fnVars, workers, websites, contact_results, next_i, future_to_idx, queue, threads, idle, fstate, sites, outcome, df, out>>

\* The executor has drained; the exception reaches __main__, which exits.
InterruptExit ==
  /\ ppc = "unwind"
  /\ \A k \in 1 .. Len(fstate) : fstate[k] \in {"done", "yielded"}
  /\ ppc' = "exit"
  /\ UNCHANGED <<dedupVars, discVars, fnVars, workers, websites, contact_results, next_i, future_to_idx, queue, threads, idle, fstate, sites, outcome, df, out>>

NextCancel ==
  \/ \E n \in Counts : Materialize(n)
  \/ \E page \in CancelPages : ppc = "scrape" /\ Listing(page)
  \/ FinishListings
  \/ InterruptListing
  \/ \E page \in SwallowPages : InterruptSwallowed(page)
  \/ Handoff
  \/ SaveEmpty
  \/ Prepare
  \/ Submit
  \/ AwaitFutures
  \/ \E site \in SitePool : StartTask(site)
  \/ \E k \in 1 .. MaxBiz : FinishTask(k)
  \/ \E k \in 1 .. MaxBiz : Collect(k)
  \/ Shutdown
  \/ Merge
  \/ InterruptEnrichment
  \/ InterruptExit

SpecCancel == CancelStart /\ [][NextCancel]_vars

(***************************************************************************)
(* Email extraction from a page: extract_email (scraper.py 124-137) and    *)
(* extract_email_from_html (mail_scraper.py 38-62).  A string is the       *)
(* sequence of its pieces; "mailto:" and "?" are pieces of their own.      *)
(***************************************************************************)
MaxAnchors == 2

\* str.lower() of one piece
LowerPiece(p) ==
  CASE p = "Info@Shop.com" -> "info@shop.com"
    [] OTHER -> p

LowerStr(s) == [i \in 1 .. Len(s) |-> LowerPiece(s[i])]

\* s.replace(old, "")
RECURSIVE Remove(_, _)
Remove(s, old) ==
  IF s = <<>> THEN <<>>
  ELSE IF Head(s) = old THEN Remove(Tail(s), old)
  ELSE <<Head(s)>> \o Remove(Tail(s), old)

\* s.split(sep)[0]
RECURSIVE Before(_, _)
Before(s, sep) ==
  IF s = <<>> \/ Head(s) = sep THEN <<>>
  ELSE <<Head(s)>> \o Before(Tail(s), sep)

\* Pieces that EMAIL_REGEX matches.
EmailShaped == {"Info@Shop.com", "info@shop.com", "sales@shop.com", "text@shop.com"}

\* EMAIL_REGEX.search(s): the first match, <<>> when there is none.
RegexSearch(s) ==
  IF \E i \in 1 .. Len(s) : s[i] \in EmailShaped
    THEN <<s[CHOOSE i \in 1 .. Len(s) :
               s[i] \in EmailShaped /\ \A j \in 1 .. (i - 1) : s[j] \notin EmailShaped]>>
    ELSE <<>>

\* h.startswith(p) and p in h, for a piece p
StartsWith(s, p) == s # <<>> /\ Head(s) = p

Contains(s, p) == \E i \in 1 .. Len(s) : s[i] = p

Hrefs ==
  { <<"https://shop.com/contact">>,
    <<"mailto:", "Info@Shop.com">>,
    <<"mailto:", "sales@shop.com", "?", "subject=hi">>,
    <<"mailto:", "?", "subject=hi">>,
    <<"https://share.com/", "?", "to=", "mailto:", "friend">> }

\* The visible text of a page: with or without an email-shaped token.
Texts == { <<"call", "us">>, <<"write", "to", "text@shop.com">> }

\* A parsed page: its <a href> in document order and its text.
Html(anchors, text) == [anchors |-> anchors, text |-> text]

HtmlPool ==
  {Html(a, t) : a \in UNION {[1 .. n -> Hrefs] : n \in 0 .. MaxAnchors}, t \in Texts}

\* A returned Optional[str]: None, or the string.
None == [none |-> TRUE, str |-> <<>>]

Str(s) == [none |-> FALSE, str |-> s]

\* scraper.py 128-133, from the i-th anchor on.
RECURSIVE MailtoScan(_, _)
MailtoScan(anchors, i) ==
  IF i > Len(anchors) THEN None
  ELSE LET h == LowerStr(anchors[i])
           email == Before(Remove(h, "mailto:"), "?")
       IN IF StartsWith(h, "mailto:") /\ RegexSearch(email) # <<>>
            THEN Str(email)
            ELSE MailtoScan(anchors, i + 1)

extract_email(html) ==
  LET byLink == MailtoScan(html.anchors, 1)
      m == RegexSearch(html.text)
  IN IF ~byLink.none THEN byLink
     ELSE IF m # <<>> THEN Str(m) ELSE None

\* mail_scraper.py 47-52, from the i-th anchor on.
RECURSIVE MailtoScanHtml(_, _)
MailtoScanHtml(anchors, i) ==
  IF i > Len(anchors) THEN None
  ELSE LET href == LowerStr(anchors[i])
       IN IF Contains(href, "mailto:")
            THEN Str(Before(Remove(href, "mailto:"), "?"))
            ELSE MailtoScanHtml(anchors, i + 1)

extract_email_from_html(html) ==
  LET byLink == MailtoScanHtml(html.anchors, 1)
      match == RegexSearch(html.text)
  IN IF ~byLink.none THEN byLink
     ELSE IF match # <<>> THEN Str(match) ELSE None

\* Both extractors, each called once on a page.
EmailStart ==
  /\ variant = "scraper"
  /\ EmptyStore
  /\ NoRun
  /\ NoPipeline
  /\ call = "none"
  /\ arg \in HtmlPool
  /\ ret = <<>>

CallExtractEmail ==
  /\ call = "none"
  /\ call' = "extract_email"
  /\ ret' = extract_email(arg)
  /\ UNCHANGED <<dedupVars, discVars, poolVars, arg>>

CallExtractEmailFromHtml ==
  /\ call = "none"
  /\ call' = "extract_email_from_html"
  /\ ret' = extract_email_from_html(arg)
  /\ UNCHANGED <<dedupVars, discVars, poolVars, arg>>

NextEmail ==
  \/ CallExtractEmail
  \/ CallExtractEmailFromHtml

SpecEmail == EmailStart /\ [][NextEmail]_vars

(***************************************************************************)
(* Field reads of the detail pane, selector by selector: the name and the  *)
(* address as scraper.py (486-496) and main.py (207-215) locate them.      *)
(***************************************************************************)
MaxH1 == 2

\* An element of the pane: its tag, its class and its text.
Elem(tag, class, text) == [tag |-> tag, class |-> class, text |-> text]

H1Pool == {Elem("h1", "", ""), Elem("h1", "DUwDvf", "n1"), Elem("h1", "title", "n2")}

\* The <div> inside button[data-item-id="address"], if the pane has one.
AddressPool ==
  {<<>>, <<Elem("div", "fontBodyMedium", "a1")>>, <<Elem("div", "fontBodySmall", "a2")>>}

\* A detail pane: its elements in document order.
PanePool ==
  {h \o a : h \in UNION {[1 .. n -> H1Pool] : n \in 0 .. MaxH1}, a \in AddressPool}

\* contains(@class, part), for the classes and parts in use
ClassContains(class, part) ==
  \/ class = part
  \/ part = "fontBody" /\ class \in {"fontBodyMedium", "fontBodySmall"}

\* Whether an element is located by a selector.
Locates(selector, e) ==
  CASE selector = "h1" -> e.tag = "h1"
    [] selector = "h1.DUwDvf" -> e.tag = "h1" /\ e.class = "DUwDvf"
    [] selector = "address fontBody" -> e.tag = "div" /\ ClassContains(e.class, "fontBody")
    [] selector = "address fontBodyMedium" -> e.tag = "div" /\ ClassContains(e.class, "fontBodyMedium")
    [] OTHER -> FALSE

\* page.locator(selector): the elements located, in document order.
RECURSIVE Locator(_, _)
Locator(pane, selector) ==
  IF pane = <<>> THEN <<>>
  ELSE (IF Locates(selector, Head(pane)) THEN <<Head(pane)>> ELSE <<>>)
         \o Locator(Tail(pane), selector)

\* What a field read gives: whether an exception leaves the iteration of
\* the listing loop, and the value the field gets.
Read(raised, value) == [raised |-> raised, value |-> value]

\* scraper.py 486-490: locator('h1').first.inner_text(timeout=7000).strip()
NameScraper(pane) ==
  LET loc == Locator(pane, "h1") IN
    IF loc = <<>> THEN Read(FALSE, "Nombre no encontrado")
    ELSE Read(FALSE, loc[1].text)

\* main.py 207-210: locator('h1.DUwDvf').inner_text() waits for exactly
\* one element and raises otherwise.
NameMain(pane) ==
  LET loc == Locator(pane, "h1.DUwDvf") IN
    IF Len(loc) # 1 THEN Read(TRUE, "")
    ELSE Read(FALSE, loc[1].text)

\* scraper.py 492-496
AddressScraper(pane) ==
  LET loc == Locator(pane, "address fontBody") IN
    IF loc = <<>> THEN Read(FALSE, "") ELSE Read(FALSE, loc[1].text)

\* main.py 212-215
AddressMain(pane) ==
  LET loc == Locator(pane, "address fontBodyMedium") IN
    IF Len(loc) > 0 THEN Read(FALSE, loc[1].text) ELSE Read(FALSE, "")

FieldReads == {"NameScraper", "NameMain", "AddressScraper", "AddressMain"}

FieldRead(reader, pane) ==
  CASE reader = "NameScraper" -> NameScraper(pane)
    [] reader = "NameMain" -> NameMain(pane)
    [] reader = "AddressScraper" -> AddressScraper(pane)
    [] reader = "AddressMain" -> AddressMain(pane)

PaneStart ==
  /\ variant \in Variants
  /\ EmptyStore
  /\ NoRun
  /\ NoPipeline
  /\ call = "none"
  /\ arg \in PanePool
  /\ ret = <<>>

\* One field is read from the pane, by the variant's own code.
ReadField(reader) ==
  /\ call = "none"
  /\ (variant = "scraper") = (reader \in {"NameScraper", "AddressScraper"})
  /\ call' = reader
  /\ ret' = FieldRead(reader, arg)
  /\ UNCHANGED <<dedupVars, discVars, poolVars, arg>>

NextPane == \E reader \in FieldReads : ReadField(reader)

SpecPane == PaneStart /\ [][NextPane]_vars

(***************************************************************************)
(* The category/location split and the coordinate parsing, each called on  *)
(* its own on a query or on a page url.                                    *)
(***************************************************************************)
MaxWords == 4

QueryPool == UNION {[1 .. n -> {"cafes", "in", "Barcelona"}] : n \in 1 .. MaxWords}

QueryStart ==
  /\ variant \in Variants
  /\ EmptyStore
  /\ NoRun
  /\ NoPipeline
  /\ call = "none"
  /\ arg \in QueryPool
  /\ ret = <<>>

\* scraper.py 516-520 on the query
CallCategoryScraper ==
  /\ call = "none"
  /\ variant = "scraper"
  /\ call' = "CategoryScraper"
  /\ ret' = CategoryScraper(arg)
  /\ UNCHANGED <<dedupVars, discVars, poolVars, arg>>

\* main.py 245-251 on the query
CallCategoryMain ==
  /\ call = "none"
  /\ variant = "main"
  /\ call' = "CategoryMain"
  /\ ret' = CategoryMain(arg)
  /\ UNCHANGED <<dedupVars, discVars, poolVars, arg>>

NextCategory ==
  \/ CallCategoryScraper
  \/ CallCategoryMain

SpecCategory == QueryStart /\ [][NextCategory]_vars

MaxSegments == 2

\* What can follow a "/@" up to the next "/".
SegmentPool ==
  { <<Num("41.38"), Num("2.17"), Txt("15z")>>,
    <<Num("-33.9"), Num("151.2")>>,
    <<Num("41.38")>>,
    <<Txt("home")>>,
    <<Num("41.38"), Txt("x")>>,
    <<Txt("x"), Num("2.17")>> }

LocationPool ==
  {<<"maps/place/x">> \o s : s \in UNION {[1 .. n -> SegmentPool] : n \in 0 .. MaxSegments}}

LocationStart ==
  /\ variant \in Variants
  /\ EmptyStore
  /\ NoRun
  /\ NoPipeline
  /\ call = "none"
  /\ arg \in LocationPool
  /\ ret = <<>>

\* scraper.py 514: extract_coordinates(page.url)
CallExtractCoordinates ==
  /\ call = "none"
  /\ variant = "scraper"
  /\ call' = "extract_coordinates"
  /\ ret' = extract_coordinates(arg)
  /\ UNCHANGED <<dedupVars, discVars, poolVars, arg>>

\* main.py 253: extract_coordinates_from_url(page.url)
CallExtractCoordinatesFromUrl ==
  /\ call = "none"
  /\ variant = "main"
  /\ call' = "extract_coordinates_from_url"
  /\ ret' = extract_coordinates_from_url(arg)
  /\ UNCHANGED <<dedupVars, discVars, poolVars, arg>>

NextCoordinates ==
  \/ CallExtractCoordinates
  \/ CallExtractCoordinatesFromUrl

SpecCoordinates == LocationStart /\ [][NextCoordinates]_vars

(***************************************************************************)
(* smart_email_scrape called on its own on a website whose pages, path by  *)
(* path, are down, hold no email, or hold one.                             *)
(***************************************************************************)
EMAIL_PATHS ==
  <<"", "contact", "contacto", "contacte", "contacts", "about", "about-us", "info",
    "information">>

MaxLivePaths == 5

PathOutcomes == {"down", "plain", "email"}

\* A server: what each path of EMAIL_PATHS answers; the paths after the
\* first MaxLivePaths are down.
ServerPool ==
  {[i \in 1 .. Len(EMAIL_PATHS) |-> IF i <= MaxLivePaths THEN s[i] ELSE "down"] :
     s \in [1 .. MaxLivePaths -> PathOutcomes]}

\* The site fetch_html(base) meets: the root page of the server.
RootSite(server) ==
  CASE server[1] = "down" -> SiteDown
    [] server[1] = "plain" -> Site("html", FALSE, "", <<>>, NoneV)
    [] server[1] = "email" -> Site("html", FALSE, "info@w1", <<>>, NoneV)

\* The paths smart_email_scrape asks fetch_html for, in order: scraper.py
\* 162 fetches base, and no other statement fetches from the website.
FetchedPaths(website, server) == IF website = "" THEN <<>> ELSE <<"">>

ProbeStart ==
  /\ variant = "scraper"
  /\ EmptyStore
  /\ NoRun
  /\ NoPipeline
  /\ call = "none"
  /\ arg \in ServerPool
  /\ ret = <<>>

CallSmartEmailScrape ==
  /\ call = "none"
  /\ call' = "smart_email_scrape"
  /\ ret' = [fetched |-> FetchedPaths("https://w1/", arg),
             result |-> smart_email_scrape("https://w1/", RootSite(arg))]
  /\ UNCHANGED <<dedupVars, discVars, poolVars, arg>>

NextProbe == CallSmartEmailScrape

SpecProbe == ProbeStart /\ [][NextProbe]_vars

(***************************************************************************)
(* The anchor loop of smart_email_scrape (scraper.py 168-231), anchor by   *)
(* anchor, with the log of the Instagram profile fetches it issues.        *)
(***************************************************************************)
MaxScan == 2

AnchorPool ==
  { Anchor("instagram.com", "shop", 4, "https://instagram.com/shop", 3, FALSE),
    Anchor("instagram.com", "other", 5, "https://instagram.com/other", 3, FALSE),
    Anchor("instagram.com", "p", 1, "https://instagram.com/p/xyz", 4, FALSE),
    Anchor("tiktok.com", "shop", 4, "https://tiktok.com/@shop", 3, FALSE),
    Anchor("tiktok.com", "other", 5, "https://tiktok.com/@other", 3, FALSE),
    Anchor("wa.me", "34600", 5, "https://wa.me/34600", 3, FALSE),
    Anchor("api.whatsapp.com", "34700", 5, "https://api.whatsapp.com/send", 3, FALSE),
    Anchor("facebook.com", "", 0, "https://facebook.com/shop", 3, FALSE),
    Anchor("facebook.com", "", 0, "https://facebook.com", 2, FALSE),
    Anchor("linkedin.com", "", 0, "https://linkedin.com/company/shop", 4, TRUE),
    Anchor("linkedin.com", "", 0, "https://linkedin.com/feed", 3, FALSE) }

\* The pages the loop runs on: the email of the page, its anchors, and
\* what the Instagram profile page would give.
ScanPool ==
  {Site("html", FALSE, e, a, g) :
     e \in {"", "info@w1"},
     a \in UNION {[1 .. n -> AnchorPool] : n \in 0 .. MaxScan},
     g \in {NoneV, "bio@ig"}}

\* scraper.py 181-191: whether the Instagram branch accepts a handle at
\* this anchor, and so calls fetch_html on the profile page.
InstagramAccepted(r, a) ==
  Get(ScanInstagram(r, a, NoneV), "instagram_username") # Get(r, "instagram_username")

\* scraper.py 166-173: the state in which the loop is entered.
ScanStart ==
  /\ variant = "scraper"
  /\ EmptyStore
  /\ NoRun
  /\ NoPipeline
  /\ call = "scan"
  /\ arg \in ScanPool
  /\ ret = [i |-> 0,
            result |-> IF arg.email # ""
                         THEN Put(Put(BlankResult, "email", arg.email), "email_source", Base("https://w1/"))
                         ELSE BlankResult,
            ig_fetches |-> <<>>]

\* One iteration of `for a in soup.find_all("a", href=True)`; ig_fetches
\* gets the email held at the moment the profile page is fetched.
ScanStep ==
  /\ call = "scan"
  /\ ret.i < Len(arg.anchors)
  /\ LET a == arg.anchors[ret.i + 1] IN
       ret' = [i |-> ret.i + 1,
               result |-> ScanAnchor(ret.result, a, arg.ig_html),
               ig_fetches |-> IF InstagramAccepted(ret.result, a)
                                THEN Append(ret.ig_fetches, Get(ret.result, "email"))
                                ELSE ret.ig_fetches]
  /\ UNCHANGED <<dedupVars, discVars, poolVars, call, arg>>

\* scraper.py 231
ScanReturn ==
  /\ call = "scan"
  /\ ret.i = Len(arg.anchors)
  /\ call' = "returned"
  /\ UNCHANGED <<dedupVars, discVars, poolVars, arg, ret>>

NextScan ==
  \/ ScanStep
  \/ ScanReturn

SpecScan == ScanStart /\ [][NextScan]_vars

(***************************************************************************)
(* The choice of the search box in scrape_gmaps (scraper.py 410-446),      *)
(* selector by selector.                                                   *)
(***************************************************************************)
selectors_to_try ==
  << "#searchboxinput",
     "input[placeholder*=Search Google Maps i]",
     "input[aria-label*=Search Google Maps i]",
     "input[role=combobox]",
     "input[type=text]",
     "//input[contains(@placeholder, Search)]",
     "input" >>

\* What a selector meets on the page: wait_for_selector raises after its
\* timeout; or it returns an element that is_visible() then finds visible;
\* or it returns an element that is no longer visible when is_visible()
\* asks the browser.
SelectorOutcomes == {"timeout", "visible", "hidden"}

\* A page: the outcome of each selector of selectors_to_try.
BoxPages == [1 .. Len(selectors_to_try) -> SelectorOutcomes]

\* scraper.py 410: search_box = None (0), before the loop.
BoxStart ==
  /\ variant = "scraper"
  /\ EmptyStore
  /\ NoRun
  /\ NoPipeline
  /\ call = "select"
  /\ arg \in BoxPages
  /\ ret = [i |-> 0, search_box |-> 0, broke |-> FALSE]

\* scraper.py 421-431: one iteration of the loop.  search_box is assigned
\* as soon as wait_for_selector returns, before the visibility test; the
\* bare except leaves it as it is.
TrySelector ==
  /\ call = "select"
  /\ ~ret.broke
  /\ ret.i < Len(selectors_to_try)
  /\ LET o == arg[ret.i + 1] IN
       ret' = [i |-> ret.i + 1,
               search_box |-> IF o = "timeout" THEN ret.search_box ELSE ret.i + 1,
               broke |-> o = "visible"]
  /\ UNCHANGED <<dedupVars, discVars, poolVars, call, arg>>

\* scraper.py 433-436: no search box, the empty BusinessList is returned.
ReturnEmpty ==
  /\ call = "select"
  /\ ret.broke \/ ret.i = Len(selectors_to_try)
  /\ ret.search_box = 0
  /\ call' = "returned"
  /\ UNCHANGED <<dedupVars, discVars, poolVars, arg, ret>>

\* scraper.py 438-446: search_box is clicked and filled, Enter is pressed.
SubmitQuery ==
  /\ call = "select"
  /\ ret.broke \/ ret.i = Len(selectors_to_try)
  /\ ret.search_box # 0
  /\ call' = "submitted"
  /\ UNCHANGED <<dedupVars, discVars, poolVars, arg, ret>>

NextSearchBox ==
  \/ TrySelector
  \/ ReturnEmpty
  \/ SubmitQuery

SpecSearchBox == BoxStart /\ [][NextSearchBox]_vars

(***************************************************************************)
(* C4 -- Discovery termination by stagnation (scroll loop of main.py):     *)
(* while the polled counts stay below the target, the stagnation counter   *)
(* is the number of consecutive latest polls whose count equals the        *)
(* previous count (0 before the first poll); a greater count resets it to  *)
(* 0; the loop leaves exactly at the poll where it reaches 3; and once the *)
(* counts are constant the loop is left within four polls.                 *)
(***************************************************************************)
\* the count the i-th poll is compared with
PrevCount(s, i) == IF i = 1 THEN 0 ELSE s[i - 1]

RECURSIVE StagnantRun(_, _)
StagnantRun(s, n) ==
  IF n = 0 THEN 0
  ELSE IF s[n] = PrevCount(s, n) THEN 1 + StagnantRun(s, n - 1) ELSE 0

\* length of the run of equal counts that ends the sequence
RECURSIVE ConstRun(_, _)
ConstRun(s, n) ==
  IF n = 0 THEN 0
  ELSE IF n = 1 THEN 1
  ELSE IF s[n] = s[n - 1] THEN 1 + ConstRun(s, n - 1) ELSE 1

C4_Stagnation ==
  variant = "main" =>
    /\ pc = "scroll" =>
         /\ \A i \in 1 .. Len(polls) : polls[i] < total
         /\ consecutive_same_count = StagnantRun(polls, Len(polls))
         /\ consecutive_same_count < 3
         /\ ConstRun(polls, Len(polls)) <= 3
         /\ (polls # <<>> /\ Last(polls) > PrevCount(polls, Len(polls)))
              => consecutive_same_count = 0
    /\ (pc \in {"materialize", "extract"} /\ Last(polls) < total) =>
         /\ consecutive_same_count = 3
         /\ StagnantRun(polls, Len(polls)) = 3
         /\ previously_counted = Last(polls)

\* counts 1,2,2,2,2 with target 3: left at the third stagnant poll, count 2
C4_Witness ==
  /\ variant = "main"
  /\ pc = "materialize"
  /\ total = 3
  /\ polls = <<1, 2, 2, 2, 2>>
  /\ previously_counted = 2

(***************************************************************************)
(* C5 -- Discovery output is bounded by the target: once the scroll loop   *)
(* is over, the listings handed to the listing loop are the first          *)
(* min(count, T) anchors of the feed, so neither the number of listings    *)
(* gone through nor the number of accepted Business records exceeds T.     *)
(***************************************************************************)
C5_BoundedByTarget ==
  pc \in {"extract", "done"} =>
    /\ links = Anchors(Min(found, total))
    /\ Len(links) <= total
    /\ idx <= Len(links)
    /\ Len(businesses) <= idx
    /\ Len(businesses) <= total
    /\ (pc = "done" => idx = Len(links))

\* the feed shows more anchors than the target, and T records are kept
C5_Witness ==
  /\ pc = "done"
  /\ found > total
  /\ total >= 2
  /\ idx = total
  /\ Len(businesses) = total

(***************************************************************************)
(* C10 -- Per-field degradation in the Detail Extractor: for every listing *)
(* whose click succeeds, whatever field extractions fail or raise, one     *)
(* Business is passed to the Deduplicator, and of the fields the variant   *)
(* extracts exactly the failed ones are absent from it.                    *)
(***************************************************************************)
ExtractedFields(v) == IF v = "scraper" THEN Fields \ {"reviews"} ELSE Fields

\* the field holds no value: its default, or the placeholder written for it
FieldAbsent(f, b) ==
  CASE f = "name" -> b.name \in {"", NoneV, "Nombre no encontrado"}
    [] f = "address" -> Falsy(b.address)
    [] f = "website" -> Falsy(b.website)
    [] f = "phone" -> Falsy(b.phone_number)
    [] f = "reviews" -> Falsy(b.reviews_count)
    [] f = "coordinates" -> b.latitude = NoneV /\ b.longitude = NoneV
    [] f = "category" -> b.category = <<>>

FailedFieldsAbsent ==
  \A f \in ExtractedFields(variant) : (f \in event.failed) <=> FieldAbsent(f, event.b)

C10_PerFieldDegradation ==
  (event.link # 0 /\ event.click) => (event.emitted /\ FailedFieldsAbsent)

\* what does hold: a Business that is passed on lacks exactly its failed fields
C10_EmittedDegraded ==
  (event.link # 0 /\ event.emitted) => FailedFieldsAbsent

(***************************************************************************)
(* C6 -- Bounded enrichment concurrency: whatever the worker count W >= 1  *)
(* and the number of websites, the smart_email_scrape calls that have      *)
(* started and not yet finished are never more than W.                     *)
(***************************************************************************)
C6_BoundedInFlight == Cardinality(Running) <= workers

\* W calls are running while another one waits in the queue.
C6_Witness == Cardinality(Running) = workers /\ queue # <<>>

(***************************************************************************)
(* C7 -- Partial-failure isolation: what a call returned, and what is      *)
(* stored in a slot, is determined by that website and what that website   *)
(* did alone, whether the other websites answer, fail or make their call   *)
(* raise; a call that finishes writes no slot and no other call's result.  *)
(***************************************************************************)
Finished(k) == fstate[k] \in {"done", "yielded"}

OwnResult(k) == smart_email_scrape(websites[future_to_idx[k]], sites[k])

Stored(r) == IF r.raises THEN EmptyDict ELSE r.data

OwnOutcomes ==
  \A k \in 1 .. Len(fstate) :
    /\ Finished(k) => outcome[k] = OwnResult(k)
    /\ fstate[k] = "yielded" => contact_results[future_to_idx[k]] = Stored(OwnResult(k))

TaskWritesOwnResultOnly ==
  \A k \in 1 .. Len(fstate) :
    (fstate[k] = "running" /\ fstate'[k] = "done")
      => /\ contact_results' = contact_results
         /\ \A j \in 1 .. Len(fstate) : j # k => outcome'[j] = outcome[j]

C7_Isolation == [](OwnOutcomes) /\ [][TaskWritesOwnResultOnly]_vars

\* One website is down or makes its call raise, and the slot of another
\* holds what that other website gave.
C7_Witness ==
  \E j, k \in 1 .. Len(fstate) :
    /\ j # k
    /\ Finished(j) /\ sites[j] \in {SiteDown, SiteCrash}
    /\ fstate[k] = "yielded" /\ sites[k] = SiteRich
    /\ Get(contact_results[future_to_idx[k]], "email") = "info@w1"

(***************************************************************************)
(* C8 -- Deterministic merge by original index: in every interleaving,     *)
(* collecting a future writes the slot of that future's website index and  *)
(* no other, each future is collected once, after the pool has drained     *)
(* slot i holds the result of the call made for website i ({} when none    *)
(* was made or it raised), and the columns the merge writes in row i are   *)
(* those of slot i.                                                        *)
(***************************************************************************)
FutureOf(i) == {k \in 1 .. Len(future_to_idx) : future_to_idx[k] = i}

SlotByIndex(i) ==
  IF FutureOf(i) = {} THEN EmptyDict
  ELSE Stored(OwnResult(CHOOSE k \in FutureOf(i) : TRUE))

Drained ==
  ppc \in {"merge", "saved"} /\ Len(websites) > 0
    => /\ \A i \in 1 .. Len(websites) : Cardinality(FutureOf(i)) <= 1
       /\ \A i \in 1 .. Len(websites) : contact_results[i] = SlotByIndex(i)

RowsFromOwnSlot ==
  ppc = "saved"
    => \A i \in 1 .. Len(websites) : \A key \in MergeKeys :
         df[i][key] = Get(SlotByIndex(i), key)

SlotWrittenByOwnFuture ==
  \A i \in 1 .. Len(contact_results) :
    (i <= Len(contact_results') /\ contact_results'[i] # contact_results[i])
      => /\ contact_results[i] = EmptyDict
         /\ \E k \in FutureOf(i) : fstate[k] = "done" /\ fstate'[k] = "yielded"

YieldedOnce ==
  \A k \in 1 .. Len(fstate) : fstate[k] = "yielded" => fstate'[k] = "yielded"

C8_MergeByIndex ==
  [](Drained /\ RowsFromOwnSlot) /\ [][SlotWrittenByOwnFuture /\ YieldedOnce]_vars

\* The table is saved, a row without a website comes before a row with
\* one, and the later row carries what its own call returned.
C8_Witness ==
  /\ ppc = "saved"
  /\ Len(websites) >= 2
  /\ websites[1] = "" /\ websites[2] # ""
  /\ df[2]["email"] = "info@w1"
  /\ df[1]["email"] = ""

(***************************************************************************)
(* C9 -- ContactResult is merged back in full: after the merge, for every  *)
(* business with a website whose call returned, every one of the nine      *)
(* ContactResult fields of its row equals the field of the dict returned.  *)
(***************************************************************************)
C9_MergedInFull ==
  ppc = "saved"
    => \A k \in 1 .. Len(fstate) :
         ~outcome[k].raises
           => \A key \in ContactKeys :
                df[future_to_idx[k]][key] = Get(outcome[k].data, key)

\* The six columns of the merge loop, which do get the returned values.
C9_SixMerged ==
  ppc = "saved"
    => \A k \in 1 .. Len(fstate) :
         ~outcome[k].raises
           => \A key \in MergeKeys :
                df[future_to_idx[k]][key] = Get(outcome[k].data, key)

(***************************************************************************)
(* C11 -- Listing-level failure is local: when the activation (click) of   *)
(* listing i fails, no record for it is passed to add, the accepted        *)
(* records and the seen set are unchanged, and the loop goes on to listing *)
(* i+1 without leaving the extraction.                                     *)
(***************************************************************************)
ActivationFailed == pc = "extract" /\ idx' = idx + 1 /\ ~event'.click

C11_ListingFailureLocal ==
  [][ActivationFailed
       => /\ ~event'.emitted
          /\ businesses' = businesses
          /\ seen' = seen
          /\ pc' = "extract"
          /\ event'.link = links[idx + 1]]_vars

\* Listing 1 was accepted, the click of listing 2 failed, and the accepted
\* list still holds the one record.
C11_Witness ==
  /\ pc = "extract"
  /\ idx = 2
  /\ event.link = links[2]
  /\ ~event.click
  /\ Len(businesses) = 1

(***************************************************************************)
(* C12 -- Cancellation keeps partial results: when the run ends because of *)
(* a user abort during extraction or enrichment, the records assembled so  *)
(* far have been handed to persistence: an output file has been written.   *)
(***************************************************************************)
C12_PartialResultsPersisted == (ppc = "exit" /\ businesses # <<>>) => out # <<>>

\* After the abort no further call is submitted (that half does hold).
Aborted == ppc \in {"unwind", "exit"}

C12_NoSubmissionAfterAbort ==
  [][Aborted => (future_to_idx' = future_to_idx /\ idx' = idx)]_vars

(***************************************************************************)
(* C13 -- Enrichment failure degrades to an all-absent ContactResult: for  *)
(* every website whose fetch fails or times out, or whose call raises,     *)
(* every contact field of the saved row is empty; the failure does not     *)
(* stop run_pipeline, which always ends by writing its output.             *)
(***************************************************************************)
FailedSite(k) == sites[k] \in {SiteDown, SiteCrash}

AllAbsent(row) == \A key \in ContactKeys : row[key] = ""

FailedRowsAbsent ==
  ppc = "saved"
    => /\ out = <<df>>
       /\ \A k \in 1 .. Len(fstate) : FailedSite(k) => AllAbsent(df[future_to_idx[k]])

C13_FailureDegrades == [](FailedRowsAbsent) /\ <>(ppc = "saved")

\* The output is written although one website was down and the call for
\* another raised; both rows have no contact field.
C13_Witness ==
  /\ ppc = "saved"
  /\ out = <<df>>
  /\ \E j, k \in 1 .. Len(fstate) :
       /\ sites[j] = SiteDown /\ sites[k] = SiteCrash
       /\ outcome[k].raises
       /\ AllAbsent(df[future_to_idx[j]]) /\ AllAbsent(df[future_to_idx[k]])

(***************************************************************************)
(* C14 -- Email source priority: on a page that has a mail-link carrying   *)
(* an email-shaped address and also an email-shaped token in its text,     *)
(* extraction returns the address of the first such mail-link in document  *)
(* order (letter case aside), never the token of the text.                 *)
(***************************************************************************)
IsMailLink(h) ==
  /\ StartsWith(LowerStr(h), "mailto:")
  /\ Len(h) >= 2
  /\ h[2] \in EmailShaped

HasMailLink(html) == \E i \in 1 .. Len(html.anchors) : IsMailLink(html.anchors[i])

FirstMailLink(html) ==
  html.anchors[CHOOSE i \in 1 .. Len(html.anchors) :
                 /\ IsMailLink(html.anchors[i])
                 /\ \A j \in 1 .. (i - 1) : ~IsMailLink(html.anchors[j])]

MailLinkWins ==
  (HasMailLink(arg) /\ RegexSearch(arg.text) # <<>>)
    => ret = Str(<<LowerPiece(FirstMailLink(arg)[2])>>)

C14_MailLinkPriority == call # "none" => MailLinkWins

\* extract_email of scraper.py alone does give the mail-link priority.
C14_ScraperPriority == call = "extract_email" => MailLinkWins

(***************************************************************************)
(* C15 -- Selector fallback in field extraction: with the candidate        *)
(* selectors of a field in order, the field gets the text of the first     *)
(* candidate that locates a non-empty text; when the first candidate       *)
(* locates nothing and the second does, the field holds the second         *)
(* candidate's value.                                                      *)
(***************************************************************************)
Candidates(reader) ==
  IF reader \in {"NameScraper", "NameMain"}
    THEN <<"h1.DUwDvf", "h1">>
    ELSE <<"address fontBodyMedium", "address fontBody">>

\* The text a candidate resolves to: that of the first element it locates
\* whose text is not empty, "" when there is none.
Resolved(pane, selector) ==
  LET loc == Locator(pane, selector) IN
    IF \E i \in 1 .. Len(loc) : loc[i].text # ""
      THEN loc[CHOOSE i \in 1 .. Len(loc) :
                 loc[i].text # "" /\ \A j \in 1 .. (i - 1) : loc[j].text = ""].text
      ELSE ""

FirstResolved(pane, cands) ==
  IF Resolved(pane, cands[1]) # "" THEN Resolved(pane, cands[1])
  ELSE Resolved(pane, cands[2])

C15_SelectorFallback ==
  (call \in FieldReads /\ FirstResolved(arg, Candidates(call)) # "")
    => (~ret.raised /\ ret.value = FirstResolved(arg, Candidates(call)))

(***************************************************************************)
(* C16 -- Category/location split: a query with the separator " in " gives *)
(* the text left of it as category and the text right of it as location;   *)
(* a query without it gives the whole query as category and no location    *)
(* (or a placeholder); the split fails for no query, however many " in "   *)
(* it holds.                                                               *)
(***************************************************************************)
Separators(q) == {i \in 2 .. (Len(q) - 1) : q[i] = "in"}

SplitAsStated(q, r) ==
  IF Separators(q) = {}
    THEN r.category = q /\ r.location \in {<<>>, <<"N/A">>}
    ELSE Cardinality(Separators(q)) = 1
           => LET i == CHOOSE i \in Separators(q) : TRUE IN
                /\ r.category = SubSeq(q, 1, i - 1)
                /\ r.location = SubSeq(q, i + 1, Len(q))

C16_CategorySplit ==
  call \in {"CategoryScraper", "CategoryMain"} => (~ret.raises /\ SplitAsStated(arg, ret))

\* main.py's split does what is stated.
C16_MainSplit == call = "CategoryMain" => (~ret.raises /\ SplitAsStated(arg, ret))

(***************************************************************************)
(* C17 -- Coordinate parsing: the result is either the first two           *)
(* comma-separated components of an "@" segment of the location string,    *)
(* both numeric, or (absent, absent); it is (absent, absent) when there is *)
(* no "@" segment and when a component of the segment is not numeric or    *)
(* missing; never exactly one of the two is absent.                        *)
(***************************************************************************)
Absent == <<NoneV, NoneV>>

Parses(seg) == Len(seg) >= 2 /\ seg[1].num /\ seg[2].num

CoordinatesAsStated(url, r) ==
  /\ (r[1] = NoneV) = (r[2] = NoneV)
  /\ Len(url) < 2 => r = Absent
  /\ r # Absent => \E k \in 2 .. Len(url) : Parses(url[k]) /\ r = <<url[k][1].val, url[k][2].val>>
  /\ Len(url) = 2 => (IF Parses(url[2]) THEN r = <<url[2][1].val, url[2][2].val>> ELSE r = Absent)

C17_CoordinateParsing ==
  call \in {"extract_coordinates", "extract_coordinates_from_url"}
    => CoordinatesAsStated(arg, ret)

\* ".../@41.38,2.17,15z" has given (41.38, 2.17) in scraper.py.
C17_Witness ==
  /\ call = "extract_coordinates"
  /\ arg = <<"maps/place/x", <<Num("41.38"), Num("2.17"), Txt("15z")>> >>
  /\ ret = <<"41.38", "2.17">>

(***************************************************************************)
(* C18 -- Sequential path probing: for one website the candidate paths are *)
(* fetched in list order until a page yields an email or the list is       *)
(* exhausted; a path whose fetch fails is followed by the next one, and no *)
(* path after the first that yielded an email is fetched.                  *)
(***************************************************************************)
FirstEmailPath(server) ==
  IF \E i \in 1 .. Len(EMAIL_PATHS) : server[i] = "email"
    THEN CHOOSE i \in 1 .. Len(EMAIL_PATHS) :
           server[i] = "email" /\ \A j \in 1 .. (i - 1) : server[j] # "email"
    ELSE Len(EMAIL_PATHS)

C18_SequentialProbing ==
  call = "smart_email_scrape"
    => /\ ret.fetched = SubSeq(EMAIL_PATHS, 1, FirstEmailPath(arg))
       /\ (\E i \in 1 .. Len(EMAIL_PATHS) : arg[i] = "email") => Get(ret.result.data, "email") # ""

\* Only the last half holds: nothing is fetched after a root page with an email.
C18_StopsAtRootEmail ==
  (call = "smart_email_scrape" /\ arg[1] = "email") => ret.fetched = <<"">>

(***************************************************************************)
(* C19 -- Social fields are write-once: during one smart_email_scrape call *)
(* a platform field that holds a value never changes again, and on return  *)
(* each platform field holds the value of the first anchor in document     *)
(* order that passes the platform's validation, "" when none does.         *)
(***************************************************************************)
PlatformKeys ==
  {"instagram_username", "instagram_url", "tiktok_username", "tiktok_url",
   "whatsapp_number", "facebook_url", "linkedin_url"}

\* The value an anchor gives to a platform field when it passes the
\* validation of that platform, "" when it does not.
ValueFor(key, a) ==
  CASE key \in {"instagram_username", "instagram_url"} ->
         IF a.host = "instagram.com" /\ a.m \notin {"", "p"} /\ ~ReservedPrefix(a.m)
              /\ a.mlen \in 3 .. 30
           THEN (IF key = "instagram_username" THEN a.m ELSE InstagramUrl(a.m)) ELSE ""
    [] key \in {"tiktok_username", "tiktok_url"} ->
         IF a.host = "tiktok.com" /\ a.m # "" /\ a.mlen \in 1 .. 40
           THEN (IF key = "tiktok_username" THEN a.m ELSE TiktokUrl(a.m)) ELSE ""
    [] key = "whatsapp_number" ->
         IF a.host \in {"wa.me", "api.whatsapp.com"} THEN a.m ELSE ""
    [] key = "facebook_url" ->
         IF a.host = "facebook.com" /\ a.slashes >= 3 THEN a.clean ELSE ""
    [] key = "linkedin_url" ->
         IF a.host = "linkedin.com" /\ a.profile THEN a.clean ELSE ""

FirstValid(key, anchors) ==
  IF \E i \in 1 .. Len(anchors) : ValueFor(key, anchors[i]) # ""
    THEN ValueFor(key, anchors[CHOOSE i \in 1 .. Len(anchors) :
                                 /\ ValueFor(key, anchors[i]) # ""
                                 /\ \A j \in 1 .. (i - 1) : ValueFor(key, anchors[j]) = ""])
    ELSE ""

NeverRewritten ==
  call = "scan"
    => \A key \in PlatformKeys :
         Get(ret.result, key) # "" => Get(ret'.result, key) = Get(ret.result, key)

FirstValidReturned ==
  call = "returned"
    => \A key \in PlatformKeys : Get(ret.result, key) = FirstValid(key, arg.anchors)

C19_WriteOnce == [](FirstValidReturned) /\ [][NeverRewritten]_vars

\* Two valid WhatsApp anchors with different numbers: the first is kept.
C19_Witness ==
  /\ call = "returned"
  /\ Len(arg.anchors) = 2
  /\ arg.anchors[1].host = "wa.me" /\ arg.anchors[2].host = "api.whatsapp.com"
  /\ Get(ret.result, "whatsapp_number") = "34600"

(***************************************************************************)
(* C20 -- Instagram secondary fetch is conditional and single: during one  *)
(* smart_email_scrape call the profile page is fetched at most once, and   *)
(* only when a handle has been accepted and no email has been found yet.   *)
(***************************************************************************)
C20_ConditionalSingleFetch ==
  call \in {"scan", "returned"}
    => /\ Len(ret.ig_fetches) <= 1
       /\ \A n \in 1 .. Len(ret.ig_fetches) : ret.ig_fetches[n] = ""

\* The fetch is issued at most once, and only after a handle is accepted.
C20_SingleFetch ==
  call \in {"scan", "returned"}
    => /\ Len(ret.ig_fetches) <= 1
       /\ Len(ret.ig_fetches) = 1 => Get(ret.result, "instagram_username") # ""

(***************************************************************************)
(* C21 -- Search-box fallback chain: after the loop over selectors_to_try  *)
(* either no search box is selected and scrape_gmaps returns without       *)
(* submitting the query, or the element clicked and filled is that of the  *)
(* first candidate in list order that resolved to a visible element; an    *)
(* element that resolved but is not visible is never clicked and filled.   *)
(***************************************************************************)
FirstVisible(page, k) ==
  /\ page[k] = "visible"
  /\ \A j \in 1 .. (k - 1) : page[j] # "visible"

C21_SearchBoxFallback ==
  /\ call = "returned" => ret.search_box = 0
  /\ call = "submitted" => FirstVisible(arg, ret.search_box)

\* When some candidate is visible, the first visible one is the one used.
C21_FirstVisibleWhenAny ==
  (call = "submitted" /\ \E k \in 1 .. Len(selectors_to_try) : arg[k] = "visible")
    => FirstVisible(arg, ret.search_box)

====
